---- MODULE Spec2Model ----
(***************************************************************************)
(* A model of asttab (src/asttab/src/asttab/main.py): ASTParser, the       *)
(* recursive-descent parser of ast.dump text that emits builder code, the  *)
(* pretty-printer _ExprFormatter, and the facade back().                   *)
(*                                                                         *)
(* Texts are sequences of one-character strings.  The cursor `pos` is the  *)
(* 0-based offset of the code, so the character at the cursor is           *)
(* text[pos + 1].                                                          *)
(***************************************************************************)
EXTENDS Integers, Sequences, FiniteSets, TLC

VARIABLES text,    \* ASTParser.text
          pos,     \* ASTParser.pos
          stack,   \* the Python call stack of the parse_* methods, top last
          ret,     \* the value a call has just returned to its caller
          status,  \* where the call modelled is: in Spec "new" | "run" |
                   \* "returned" (parse_value is back) | "done" | "err"
          err,     \* the exception a parse_* method raised, when status = "err"
          ev,      \* the parse_* call the last step ended (returned or raised), if any
          out,     \* what parse, format or back gave: the text returned, or the
                   \* exception raised
          pretty,  \* the argument of parse
          tree,    \* the tree at hand: in Spec the one `text` is the dump of (NoTree
                   \* when it is no dump), in SpecFmt the expression formatted, in
                   \* SpecBack what eval gave
          namespace,        \* back: the namespace dict its exec fills
          return_callable,  \* back: its argument
          prior    \* the parse call made before this one, on the text this
                   \* one's text was made from: its text, builder and cursor

vars == <<text, pos, stack, ret, status, err, ev, out, pretty, tree, namespace,
          return_callable, prior>>

----------------------------------------------------------------------------
(* Characters *)

Lower == {"a","b","c","d","e","f","g","h","i","j","k","l","m",
          "n","o","p","q","r","s","t","u","v","w","x","y","z"}
Upper == {"A","B","C","D","E","F","G","H","I","J","K","L","M",
          "N","O","P","Q","R","S","T","U","V","W","X","Y","Z"}
Letters == Lower \cup Upper
Digits == {"0","1","2","3","4","5","6","7","8","9"}

\* node_re's class [A-Za-z0-9_]
NodeChars == Letters \cup Digits \cup {"_"}
\* field_re's class [A-Za-z_]
FieldChars == Letters \cup {"_"}
\* parse_atom's class [A-Za-z0-9_.+-]
AtomChars == Letters \cup Digits \cup {"_", ".", "+", "-"}
\* str.isspace() on the characters the model uses
SpaceChars == {" ", "\n", "\t"}
QuoteChars == {"'", "\""}

----------------------------------------------------------------------------
(* Text helpers *)

\* text[a:b] of Python, 0-based and half-open
Slice(t, a, b) == IF a < b THEN SubSeq(t, a + 1, b) ELSE <<>>

\* ASTParser.peek: the character at the cursor, <<>> (Python's '') at the end
Peek(t, p) == Slice(t, p, IF p + 1 <= Len(t) THEN p + 1 ELSE Len(t))

\* str.startswith(s, p)
StartsWith(t, s, p) ==
    /\ p + Len(s) <= Len(t)
    /\ \A i \in 1..Len(s) : t[p + i] = s[i]

\* the offset after the longest run of characters of S that starts at p
RECURSIVE ScanWhile(_, _, _)
ScanWhile(t, p, S) ==
    IF p < Len(t) /\ t[p + 1] \in S THEN ScanWhile(t, p + 1, S) ELSE p

\* a skip_ws that skips nothing
SkipWsNone(t, p) == p

\* ASTParser.skip_ws: the cursor after the loop
SkipWs(t, p) == ScanWhile(t, p, SpaceChars)

\* a regular expression "([class]+)<stop>" matched at p: the run is greedy, and no
\* shorter run can be followed by <stop>, which is not in the class
RunMatch(t, p, S, stop) ==
    LET q == ScanWhile(t, p, S)
    IN  q > p /\ q < Len(t) /\ t[q + 1] = stop

\* ASTParser.node_re.match(text, pos)
NodeMatch(t, p) == RunMatch(t, p, NodeChars, "(")
\* ASTParser.field_re.match(text, pos)
FieldMatch(t, p) == RunMatch(t, p, FieldChars, "=")

\* an eat without its assertion: it advances whatever the text holds
EatAny(t, s, p) == TRUE

\* ASTParser.eat's assertion (assertions are on, as the interpreter has them
\* unless it is run with -O)
EatOk(t, s, p) == StartsWith(t, s, p)

\* ", ".join(items)
RECURSIVE JoinComma(_)
JoinComma(items) ==
    IF Len(items) = 0 THEN <<>>
    ELSE IF Len(items) = 1 THEN items[1]
    ELSE items[1] \o <<",", " ">> \o JoinComma(Tail(items))

----------------------------------------------------------------------------
(* repr() of a str, on the characters the model uses *)

Contains(s, c) == \E i \in 1..Len(s) : s[i] = c

\* the quote repr() chooses: double quotes only when the string holds a single
\* quote and no double quote
ReprQuote(s) == IF Contains(s, "'") /\ ~Contains(s, "\"") THEN "\"" ELSE "'"

ReprChar(c, q) ==
    IF c = "\\" THEN <<"\\", "\\">>
    ELSE IF c = q THEN <<"\\", c>>
    ELSE IF c = "\n" THEN <<"\\", "n">>
    ELSE IF c = "\t" THEN <<"\\", "t">>
    ELSE <<c>>

RECURSIVE ReprBody(_, _)
ReprBody(s, q) ==
    IF Len(s) = 0 THEN <<>> ELSE ReprChar(Head(s), q) \o ReprBody(Tail(s), q)

PyRepr(s) == <<ReprQuote(s)>> \o ReprBody(s, ReprQuote(s)) \o <<ReprQuote(s)>>

----------------------------------------------------------------------------
(* The parser's call stack *)

Frame(fn, pc, start) ==
    [fn |-> fn, pc |-> pc, start |-> start, name |-> <<>>, field |-> <<>>,
     items |-> <<>>]

Top == stack[Len(stack)]
Pop == SubSeq(stack, 1, Len(stack) - 1)
SetTop(f) == [stack EXCEPT ![Len(stack)] = f]
Running(fn, pc) == status = "run" /\ Len(stack) > 0 /\ Top.fn = fn /\ Top.pc = pc

NoRet == [has |-> FALSE, val |-> <<>>]
NoErr == [kind |-> "none", tok |-> <<>>, at |-> 0]
\* no parse call was made before
NoPrior == [has |-> FALSE, how |-> "none", text |-> <<>>, val |-> <<>>, pos |-> 0]
NoEv == [op |-> "none", start |-> 0, items |-> <<>>, val |-> <<>>, ok |-> TRUE]

\* raise: the exception leaves every frame; the cursor stays where the code left it
Raise(kind, tok, p) ==
    /\ status' = "err"
    /\ err' = [kind |-> kind, tok |-> tok, at |-> p]
    /\ pos' = p
    /\ UNCHANGED <<namespace, return_callable, prior, text, tree, pretty, stack, ret, out>>

\* return v from the top frame
Return(v, p) ==
    /\ stack' = Pop
    /\ ret' = [has |-> TRUE, val |-> v]
    /\ pos' = p
    /\ status' = IF Len(stack) = 1 THEN "returned" ELSE "run"
    /\ UNCHANGED <<namespace, return_callable, prior, text, tree, pretty, err, out>>

\* call fn: the caller waits at pc "await"
Call(fn, p) ==
    /\ stack' = Append(SetTop([Top EXCEPT !.pc = "await"]), Frame(fn, "begin", p))
    /\ ret' = NoRet
    /\ pos' = p
    /\ UNCHANGED <<namespace, return_callable, prior, text, tree, pretty, status, err, out>>

----------------------------------------------------------------------------
(* ASTParser.parse_value *)

\* the production parse_value selects at offset p (after skip_ws)
Dispatch(t, p) ==
    IF NodeMatch(t, p) THEN "node"
    ELSE IF t[p + 1] = "[" THEN "list"
    ELSE IF t[p + 1] = "(" THEN "tuple"
    ELSE IF t[p + 1] \in QuoteChars THEN "string"
    ELSE "atom"

ParseValue ==
    /\ Running("value", "begin")
    /\ LET p == SkipWs(text, pos)
       IN  IF Peek(text, p) = <<>>
           THEN Raise("UnexpectedEnd", <<>>, p) /\ ev' = [NoEv EXCEPT !.op = "value", !.start = Top.start, !.ok = FALSE]
           ELSE Call(Dispatch(text, p), p) /\ ev' = NoEv

\* return self.parse_node() and the like: the callee's value is passed on
ParseValueReturn ==
    /\ Running("value", "await")
    /\ ret.has
    /\ Return(ret.val, pos)
    /\ ev' = [NoEv EXCEPT !.op = "value", !.start = Top.start, !.val = ret.val]

----------------------------------------------------------------------------
(* ASTParser.parse_node *)

ParseNodeBegin ==
    /\ Running("node", "begin")
    /\ IF ~NodeMatch(text, pos)
       THEN Raise("ExpectedNode", <<>>, pos) /\ ev' = [NoEv EXCEPT !.op = "node", !.start = Top.start, !.ok = FALSE]
       ELSE LET q == ScanWhile(text, pos, NodeChars)
            IN  /\ stack' = SetTop([Top EXCEPT !.pc = "loop", !.name = Slice(text, pos, q)])
                /\ pos' = q + 1
                /\ ev' = NoEv
                /\ UNCHANGED <<namespace, return_callable, prior, text, tree, pretty, ret, status, err, out>>

\* the head of the field loop: skip_ws, the test for ")", the field name
ParseNodeLoop ==
    /\ Running("node", "loop")
    /\ LET p == SkipWs(text, pos)
       IN  IF Peek(text, p) = <<")">> \/ ~FieldMatch(text, p)
           THEN /\ stack' = SetTop([Top EXCEPT !.pc = "close"])
                /\ pos' = p
                /\ ev' = NoEv
                /\ UNCHANGED <<namespace, return_callable, prior, text, tree, pretty, ret, status, err, out>>
           ELSE LET q == ScanWhile(text, p, FieldChars)
                IN  /\ stack' = Append(SetTop([Top EXCEPT !.pc = "await",
                                                         !.field = Slice(text, p, q)]),
                                       Frame("value", "begin", q + 1))
                    /\ ret' = NoRet
                    /\ pos' = q + 1
                    /\ ev' = NoEv
                    /\ UNCHANGED <<namespace, return_callable, prior, text, tree, pretty, status, err, out>>

\* after value = self.parse_value(): append, skip_ws, the test for ","
ParseNodeField ==
    /\ Running("node", "await")
    /\ ret.has
    /\ LET p == SkipWs(text, pos)
           more == Peek(text, p) = <<",">>
       IN  /\ stack' = SetTop([Top EXCEPT
                          !.pc = IF more THEN "loop" ELSE "close",
                          !.items = Append(@, Top.field \o <<"=">> \o ret.val)])
           /\ pos' = IF more THEN p + 1 ELSE p
           /\ ret' = NoRet
           /\ ev' = NoEv
           /\ UNCHANGED <<namespace, return_callable, prior, text, tree, pretty, status, err, out>>

\* _ast_class(name)
AstClass(name) == <<"a", "s", "t", ".">> \o name

ParseNodeClose ==
    /\ Running("node", "close")
    /\ IF ~EatOk(text, <<")">>, pos)
       THEN Raise("ExpectedToken", <<")">>, pos) /\ ev' = [NoEv EXCEPT !.op = "node", !.start = Top.start, !.items = Top.items, !.ok = FALSE]
       ELSE LET v == AstClass(Top.name) \o <<"(">> \o JoinComma(Top.items) \o <<")">>
            IN  /\ Return(v, pos + 1)
                /\ ev' = [NoEv EXCEPT !.op = "node", !.start = Top.start, !.items = Top.items, !.val = v]

----------------------------------------------------------------------------
(* ASTParser.parse_list and ASTParser.parse_tuple: the same loop *)

\* self.eat(open)
SeqBegin(fn, open) ==
    /\ IF ~EatOk(text, <<open>>, pos)
       THEN Raise("ExpectedToken", <<open>>, pos) /\ ev' = [NoEv EXCEPT !.op = fn, !.start = Top.start, !.ok = FALSE]
       ELSE /\ stack' = SetTop([Top EXCEPT !.pc = "loop"])
            /\ pos' = pos + 1
            /\ ev' = NoEv
            /\ UNCHANGED <<namespace, return_callable, prior, text, tree, pretty, ret, status, err, out>>

\* the head of the loop: skip_ws, the test for the closing bracket, parse_value()
SeqLoop(fn, close) ==
    /\ LET p == SkipWs(text, pos)
       IN  IF Peek(text, p) = <<close>>
           THEN /\ stack' = SetTop([Top EXCEPT !.pc = "close"])
                /\ pos' = p
                /\ ev' = NoEv
                /\ UNCHANGED <<namespace, return_callable, prior, text, tree, pretty, ret, status, err, out>>
           ELSE /\ stack' = Append(SetTop([Top EXCEPT !.pc = "await"]),
                                   Frame("value", "begin", p))
                /\ ret' = NoRet
                /\ pos' = p
                /\ ev' = NoEv
                /\ UNCHANGED <<namespace, return_callable, prior, text, tree, pretty, status, err, out>>

\* after items.append(self.parse_value()): skip_ws, the test for ","
SeqItem(fn) ==
    /\ ret.has
    /\ LET p == SkipWs(text, pos)
           more == Peek(text, p) = <<",">>
       IN  /\ stack' = SetTop([Top EXCEPT
                          !.pc = IF more THEN "loop" ELSE "close",
                          !.items = Append(@, ret.val)])
           /\ pos' = IF more THEN p + 1 ELSE p
           /\ ret' = NoRet
           /\ ev' = NoEv
           /\ UNCHANGED <<namespace, return_callable, prior, text, tree, pretty, status, err, out>>

\* what parse_list returns for its items
ListCode(items) == <<"[">> \o JoinComma(items) \o <<"]">>

\* a parse_tuple that joins its items whatever their number
TupleCodePlain(items) == <<"(">> \o JoinComma(items) \o <<")">>

\* what parse_tuple returns for its items
TupleCode(items) ==
    IF Len(items) = 1 THEN <<"(">> \o items[1] \o <<",", ")">>
    ELSE <<"(">> \o JoinComma(items) \o <<")">>

\* self.eat(close) and the return
SeqClose(fn, close, v) ==
    /\ IF ~EatOk(text, <<close>>, pos)
       THEN Raise("ExpectedToken", <<close>>, pos) /\ ev' = [NoEv EXCEPT !.op = fn, !.start = Top.start, !.items = Top.items, !.ok = FALSE]
       ELSE /\ Return(v, pos + 1)
            /\ ev' = [NoEv EXCEPT !.op = fn, !.start = Top.start, !.items = Top.items, !.val = v]

ParseListBegin == Running("list", "begin") /\ SeqBegin("list", "[")
ParseListLoop == Running("list", "loop") /\ SeqLoop("list", "]")
ParseListItem == Running("list", "await") /\ SeqItem("list")
ParseListClose == Running("list", "close") /\ SeqClose("list", "]", ListCode(Top.items))

ParseTupleBegin == Running("tuple", "begin") /\ SeqBegin("tuple", "(")
ParseTupleLoop == Running("tuple", "loop") /\ SeqLoop("tuple", ")")
ParseTupleItem == Running("tuple", "await") /\ SeqItem("tuple")
ParseTupleClose == Running("tuple", "close") /\ SeqClose("tuple", ")", TupleCode(Top.items))

----------------------------------------------------------------------------
(* ASTParser.parse_string *)

\* a scan that takes a backslash to escape the character after it
RECURSIVE ScanToEscaped(_, _, _)
ScanToEscaped(t, p, q) ==
    IF p >= Len(t) \/ t[p + 1] = q THEN p
    ELSE IF t[p + 1] = "\\" THEN ScanToEscaped(t, p + 2, q)
    ELSE ScanToEscaped(t, p + 1, q)

\* a scan that runs one past the end of a text without the quote
ScanToPast(t, p, q) ==
    LET later == {i \in p..Len(t) - 1 : t[i + 1] = q}
    IN  IF later = {} THEN Len(t) + 1 ELSE CHOOSE i \in later : \A j \in later : i <= j

\* the offset at which the scan `while self.peek() != quote` stops: the first
\* occurrence of q at or after p, or the end of the text
RECURSIVE ScanTo(_, _, _)
ScanTo(t, p, q) ==
    IF p < Len(t) /\ t[p + 1] # q THEN ScanTo(t, p + 1, q) ELSE p

\* the literal parse_string emits for the raw content s
StringCode(s) == PyRepr(s)

ParseString ==
    /\ Running("string", "begin")
    /\ LET quote == text[pos + 1]
           start == pos + 1
           q == ScanTo(text, start, quote)
       IN  IF q >= Len(text)
           THEN Raise("Unterminated", <<>>, q) /\ ev' = [NoEv EXCEPT !.op = "string", !.start = start, !.ok = FALSE]
           ELSE LET v == StringCode(Slice(text, start, q))
                IN  /\ Return(v, q + 1)
                    /\ ev' = [NoEv EXCEPT !.op = "string", !.start = start, !.val = v]

----------------------------------------------------------------------------
(* ASTParser.parse_atom *)

\* re.fullmatch(r"[+-]?\d+", atom)
IsInteger(a) ==
    LET d == IF Len(a) > 0 /\ a[1] \in {"+", "-"} THEN Tail(a) ELSE a
    IN  Len(d) > 0 /\ \A i \in 1..Len(d) : d[i] \in Digits

KwTrue == <<"T", "r", "u", "e">>
KwFalse == <<"F", "a", "l", "s", "e">>
KwNone == <<"N", "o", "n", "e">>

\* [+-]?\d+(\.\d+)?: a parse_atom that takes decimals as well
AtomValidDecimal(a) ==
    \/ a \in {KwTrue, KwFalse, KwNone}
    \/ IsInteger(a)
    \/ \E i \in 2..Len(a) - 1 :
           /\ a[i] = "."
           /\ IsInteger(SubSeq(a, 1, i - 1))
           /\ \A j \in i + 1..Len(a) : a[j] \in Digits

\* a parse_atom that takes every lexeme, the empty one too
AtomValidAny(a) == TRUE

\* the lexemes parse_atom returns
AtomValid(a) == a \in {KwTrue, KwFalse, KwNone} \/ IsInteger(a)

\* a parse_atom that takes the rest of the text for its lexeme
AtomEndOfText(t, p) == Len(t)

\* the offset after the lexeme parse_atom consumes at p
AtomEnd(t, p) == ScanWhile(t, p, AtomChars)

ParseAtom ==
    /\ Running("atom", "begin")
    /\ LET q == AtomEnd(text, pos)
           atom == Slice(text, pos, q)
       IN  IF AtomValid(atom)
           THEN /\ Return(atom, q)
                /\ ev' = [NoEv EXCEPT !.op = "atom", !.start = pos, !.val = atom]
           ELSE /\ Raise("UnknownAtom", atom, q)
                /\ ev' = [NoEv EXCEPT !.op = "atom", !.start = pos, !.val = atom, !.ok = FALSE]

----------------------------------------------------------------------------
(* Expression trees: what ast.parse(builder_code, mode="eval") gives.          *)
(* k is the node class; t the type of a Constant's value; s a name, an         *)
(* attribute, an operator or a constant's value; xs the children; ks a Call's  *)
(* keyword names.  A Call's xs are the callee, the positional arguments, then  *)
(* the keyword values; a Dict's xs are key, value, key, value, ...             *)

Tree(k, t, s, xs, ks) == [k |-> k, t |-> t, s |-> s, xs |-> xs, ks |-> ks]
NoTree == Tree("none", "", <<>>, <<>>, <<>>)
\* the key of a Dict's `**mapping` entry: None in Dict.keys
NoKey == Tree("NoKey", "", <<>>, <<>>, <<>>)
\* keyword.arg of a `**mapping` argument: None in the AST
StarStar == <<"*", "*">>

Name(id) == Tree("Name", "", id, <<>>, <<>>)
Attribute(v, attr) == Tree("Attribute", "", attr, <<v>>, <<>>)
Constant(t, s) == Tree("Constant", t, s, <<>>, <<>>)
ListOf(xs) == Tree("List", "", <<>>, xs, <<>>)
TupleOf(xs) == Tree("Tuple", "", <<>>, xs, <<>>)
DictOf(xs) == Tree("Dict", "", <<>>, xs, <<>>)
CallOf(f, args, ks) == Tree("Call", "", <<>>, <<f>> \o args, ks)
UnaryOp(op, v) == Tree("UnaryOp", "", <<op>>, <<v>>, <<>>)

----------------------------------------------------------------------------
(* ast.parse(text, mode="eval") on the expressions ASTParser and the formatter *)
(* emit: names, attribute access, calls with positional, keyword and **        *)
(* arguments, lists, tuples, dicts, parentheses, string literals with repr()'s *)
(* escapes, decimal integers, digits "." digits floats, a unary sign.          *)

\* Python's keywords: none is a name
Keywords ==
    { <<"a","n","d">>, <<"a","s">>, <<"a","s","s","e","r","t">>,
      <<"a","s","y","n","c">>, <<"a","w","a","i","t">>, <<"b","r","e","a","k">>,
      <<"c","l","a","s","s">>, <<"c","o","n","t","i","n","u","e">>,
      <<"d","e","f">>, <<"d","e","l">>, <<"e","l","i","f">>, <<"e","l","s","e">>,
      <<"e","x","c","e","p","t">>, <<"f","i","n","a","l","l","y">>,
      <<"f","o","r">>, <<"f","r","o","m">>, <<"g","l","o","b","a","l">>,
      <<"i","f">>, <<"i","m","p","o","r","t">>, <<"i","n">>, <<"i","s">>,
      <<"l","a","m","b","d","a">>, <<"n","o","n","l","o","c","a","l">>,
      <<"n","o","t">>, <<"o","r">>, <<"p","a","s","s">>, <<"r","a","i","s","e">>,
      <<"r","e","t","u","r","n">>, <<"t","r","y">>, <<"w","h","i","l","e">>,
      <<"w","i","t","h">>, <<"y","i","e","l","d">>,
      KwTrue, KwFalse, KwNone }

\* whitespace between tokens: a newline only inside brackets
PySkip(t, p, inb) == ScanWhile(t, p, IF inb THEN {" ", "\t", "\n"} ELSE {" ", "\t"})

At(t, p, c) == p < Len(t) /\ t[p + 1] = c

PFail == [ok |-> FALSE, p |-> 0, e |-> NoTree, xs |-> <<>>, ks |-> <<>>]
POk(p, e) == [ok |-> TRUE, p |-> p, e |-> e, xs |-> <<>>, ks |-> <<>>]
POks(p, xs, ks) == [ok |-> TRUE, p |-> p, e |-> NoTree, xs |-> xs, ks |-> ks]

\* int(): the digits without leading zeros
RECURSIVE StripZeros(_)
StripZeros(d) == IF Len(d) > 1 /\ d[1] = "0" THEN StripZeros(Tail(d)) ELSE d

\* the fraction of a float's repr(): no trailing zeros, "0" when empty
RECURSIVE StripFrac(_)
StripFrac(d) ==
    IF Len(d) = 0 THEN <<"0">>
    ELSE IF d[Len(d)] = "0" THEN StripFrac(SubSeq(d, 1, Len(d) - 1))
    ELSE d

\* a decimal integer literal: no leading zero unless the value is zero
IntLiteralOk(d) == Len(d) = 1 \/ d[1] # "0" \/ \A i \in 1..Len(d) : d[i] = "0"

\* the character an escape \c of a string literal stands for
Unescape(c) ==
    IF c = "n" THEN <<"\n">>
    ELSE IF c = "t" THEN <<"\t">>
    ELSE IF c \in {"\\", "'", "\""} THEN <<c>>
    ELSE <<"\\", c>>

\* the body of a string literal opened by quote q, from offset p
RECURSIVE PString(_, _, _, _)
PString(t, p, q, acc) ==
    IF p >= Len(t) \/ t[p + 1] = "\n" THEN PFail
    ELSE IF t[p + 1] = q THEN POk(p + 1, Constant("str", acc))
    ELSE IF t[p + 1] = "\\"
         THEN IF p + 1 >= Len(t) THEN PFail
              ELSE PString(t, p + 2, q, acc \o Unescape(t[p + 2]))
    ELSE PString(t, p + 1, q, Append(acc, t[p + 1]))

\* a number literal at p
PNumber(t, p) ==
    LET m == ScanWhile(t, p, Digits)
        d == Slice(t, p, m)
    IN  IF m < Len(t) /\ t[m + 1] \in Letters \cup {"_"} THEN PFail
        ELSE IF At(t, m, ".")
             THEN LET f == ScanWhile(t, m + 1, Digits)
                  IN  IF f < Len(t) /\ t[f + 1] \in Letters \cup {"_"} THEN PFail
                      ELSE POk(f, Constant("float",
                               StripZeros(d) \o <<".">> \o StripFrac(Slice(t, m + 1, f))))
        ELSE IF IntLiteralOk(d) THEN POk(m, Constant("int", StripZeros(d)))
        ELSE PFail

\* a name, or True, False, None
PName(t, p) ==
    LET m == ScanWhile(t, p, NodeChars)
        w == Slice(t, p, m)
    IN  IF w = KwNone THEN POk(m, Constant("none", w))
        ELSE IF w \in {KwTrue, KwFalse} THEN POk(m, Constant("bool", w))
        ELSE IF w \in Keywords THEN PFail
        ELSE POk(m, Name(w))

RECURSIVE PExpr(_, _, _), PTrailers(_, _, _, _), PAtom(_, _), PElems(_, _, _, _),
          PArgs(_, _, _, _), PPairs(_, _, _)

\* a sign applied to the operand parsed as r
PSigned(op, r) == IF r.ok THEN POk(r.p, UnaryOp(op, r.e)) ELSE PFail

\* the trailers of the atom parsed as a
PAfterAtom(t, inb, a) == IF a.ok THEN PTrailers(t, a.p, inb, a.e) ELSE PFail

\* an expression at p: a signed expression, or an atom and its trailers
PExpr(t, p, inb) ==
    IF p >= Len(t) THEN PFail
    ELSE IF t[p + 1] \in {"+", "-"}
         THEN PSigned(t[p + 1], PExpr(t, PySkip(t, p + 1, inb), inb))
    ELSE PAfterAtom(t, inb, PAtom(t, p))

\* e.<name>, the name at n..m
PAttribute(t, n, m, inb, e) ==
    IF m > n /\ t[n + 1] \notin Digits /\ Slice(t, n, m) \notin Keywords
    THEN PTrailers(t, m, inb, Attribute(e, Slice(t, n, m)))
    ELSE PFail

\* e(<arguments>), the arguments parsed as a
PCall(t, inb, e, a) ==
    IF a.ok THEN PTrailers(t, a.p, inb, CallOf(e, a.xs, a.ks)) ELSE PFail

\* the trailer of e at q, after the whitespace that follows p
PTrailerAt(t, p, q, inb, e) ==
    IF At(t, q, ".")
    THEN PAttribute(t, PySkip(t, q + 1, inb),
                    ScanWhile(t, PySkip(t, q + 1, inb), NodeChars), inb, e)
    ELSE IF At(t, q, "(") THEN PCall(t, inb, e, PArgs(t, q + 1, <<>>, <<>>))
    ELSE POk(p, e)

\* the trailers .name and (arguments) after the primary e
PTrailers(t, p, inb, e) == PTrailerAt(t, p, PySkip(t, p, inb), inb, e)

PWrap(k, r) == IF r.ok THEN POk(r.p, Tree(k, "", <<>>, r.xs, <<>>)) ELSE PFail

\* after "(" expr: ")" closes a parenthesized expression, "," makes it a tuple
PParenNext(t, r, n) ==
    IF At(t, n, ")") THEN POk(n + 1, r.e)
    ELSE IF At(t, n, ",") THEN PWrap("Tuple", PElems(t, n + 1, ")", <<r.e>>))
    ELSE PFail

PParenGot(t, r) == IF r.ok THEN PParenNext(t, r, PySkip(t, r.p, TRUE)) ELSE PFail

\* after "(": the empty tuple, or an expression
PParen(t, q) ==
    IF At(t, q, ")") THEN POk(q + 1, TupleOf(<<>>)) ELSE PParenGot(t, PExpr(t, q, TRUE))

PAtom(t, p) ==
    IF t[p + 1] \in Letters \cup {"_"} THEN PName(t, p)
    ELSE IF t[p + 1] \in Digits THEN PNumber(t, p)
    ELSE IF t[p + 1] \in QuoteChars THEN PString(t, p + 1, t[p + 1], <<>>)
    ELSE IF t[p + 1] = "[" THEN PWrap("List", PElems(t, p + 1, "]", <<>>))
    ELSE IF t[p + 1] = "{" THEN PWrap("Dict", PPairs(t, p + 1, <<>>))
    ELSE IF t[p + 1] = "(" THEN PParen(t, PySkip(t, p + 1, TRUE))
    ELSE PFail

\* after an element: "," and more elements, or the closing bracket
PElemsNext(t, n, close, xs) ==
    IF At(t, n, ",") THEN PElems(t, n + 1, close, xs)
    ELSE IF At(t, n, close) THEN POks(n + 1, xs, <<>>)
    ELSE PFail

PElemsGot(t, r, close, xs) ==
    IF r.ok THEN PElemsNext(t, PySkip(t, r.p, TRUE), close, Append(xs, r.e)) ELSE PFail

PElemsAt(t, q, close, xs) ==
    IF At(t, q, close) THEN POks(q + 1, xs, <<>>)
    ELSE PElemsGot(t, PExpr(t, q, TRUE), close, xs)

\* the elements of a list or tuple up to the closing bracket; p is after the
\* opening bracket or after a comma
PElems(t, p, close, xs) == PElemsAt(t, PySkip(t, p, TRUE), close, xs)

\* after an argument: "," and more arguments, or ")"
PArgsSep(t, q, xs, ks) ==
    IF At(t, q, ",") THEN PArgs(t, q + 1, xs, ks)
    ELSE IF At(t, q, ")") THEN POks(q + 1, xs, ks)
    ELSE PFail

\* the value v of the keyword argument `name`
PArgsValue(t, v, xs, ks, name) ==
    IF v.ok THEN PArgsSep(t, PySkip(t, v.p, TRUE), Append(xs, v.e), Append(ks, name))
    ELSE PFail

\* the expression r is followed at n by "=" (r names a keyword argument: a name,
\* and no keyword twice) or is a positional argument (none follows a keyword)
PArgsKind(t, r, n, xs, ks) ==
    IF At(t, n, "=")
    THEN IF r.e.k # "Name" \/ \E i \in 1..Len(ks) : ks[i] = r.e.s THEN PFail
         ELSE PArgsValue(t, PExpr(t, PySkip(t, n + 1, TRUE), TRUE), xs, ks, r.e.s)
    ELSE IF Len(ks) > 0 THEN PFail
    ELSE PArgsSep(t, n, Append(xs, r.e), ks)

PArgsGot(t, r, xs, ks) ==
    IF r.ok THEN PArgsKind(t, r, PySkip(t, r.p, TRUE), xs, ks) ELSE PFail

PArgsAt(t, q, xs, ks) ==
    IF At(t, q, ")") THEN POks(q + 1, xs, ks)
    ELSE IF StartsWith(t, StarStar, q)
    THEN PArgsValue(t, PExpr(t, PySkip(t, q + 2, TRUE), TRUE), xs, ks, StarStar)
    ELSE PArgsGot(t, PExpr(t, q, TRUE), xs, ks)

\* the arguments of a call up to ")"; p is after "(" or after a comma
PArgs(t, p, xs, ks) == PArgsAt(t, PySkip(t, p, TRUE), xs, ks)

\* after an entry: "," and more entries, or "}"
PPairsSep(t, q, xs) ==
    IF At(t, q, ",") THEN PPairs(t, q + 1, xs)
    ELSE IF At(t, q, "}") THEN POks(q + 1, xs, <<>>)
    ELSE PFail

\* the value v of the entry whose key is key
PPairsValue(t, key, v, xs) ==
    IF v.ok THEN PPairsSep(t, PySkip(t, v.p, TRUE), xs \o <<key, v.e>>) ELSE PFail

PPairsColon(t, r, n, xs) ==
    IF At(t, n, ":")
    THEN PPairsValue(t, r.e, PExpr(t, PySkip(t, n + 1, TRUE), TRUE), xs)
    ELSE PFail

PPairsGot(t, r, xs) ==
    IF r.ok THEN PPairsColon(t, r, PySkip(t, r.p, TRUE), xs) ELSE PFail

PPairsAt(t, q, xs) ==
    IF At(t, q, "}") THEN POks(q + 1, xs, <<>>)
    ELSE IF StartsWith(t, StarStar, q)
    THEN PPairsValue(t, NoKey, PExpr(t, PySkip(t, q + 2, TRUE), TRUE), xs)
    ELSE PPairsGot(t, PExpr(t, q, TRUE), xs)

\* the entries of a dict up to "}"; p is after "{" or after a comma
PPairs(t, p, xs) == PPairsAt(t, PySkip(t, p, TRUE), xs)

\* the whole text is one expression: only whitespace follows it
PWhole(t, r) ==
    IF r.ok /\ ScanWhile(t, r.p, SpaceChars) = Len(t)
    THEN [ok |-> TRUE, e |-> r.e]
    ELSE [ok |-> FALSE, e |-> NoTree]

\* ast.parse(t, mode="eval").body, or a SyntaxError (ok is FALSE)
PyParse(t) ==
    IF Len(t) = 0 \/ t[1] \in SpaceChars THEN [ok |-> FALSE, e |-> NoTree]
    ELSE PWhole(t, PExpr(t, 0, FALSE))

----------------------------------------------------------------------------
(* _ExprFormatter *)

\* the width of ASTParser.indent, " " * 4
IndentWidth == 4

RECURSIVE Spaces(_)
Spaces(n) == IF n <= 0 THEN <<>> ELSE <<" ">> \o Spaces(n - 1)

\* self.indent * level
Indent(level) == Spaces(IndentWidth * level)

\* f",\n{inner}".join(parts)
RECURSIVE JoinLines(_, _)
JoinLines(parts, inner) ==
    IF Len(parts) = 0 THEN <<>>
    ELSE IF Len(parts) = 1 THEN parts[1]
    ELSE parts[1] \o <<",", "\n">> \o inner \o JoinLines(Tail(parts), inner)

\* a join that puts no comma after the last part
NewlineJoinPlain(parts, level) ==
    <<"\n">> \o Indent(level + 1) \o JoinLines(parts, Indent(level + 1))
             \o <<"\n">> \o Indent(level)

\* _ExprFormatter._newline_join
NewlineJoin(parts, level) ==
    <<"\n">> \o Indent(level + 1) \o JoinLines(parts, Indent(level + 1))
             \o <<",", "\n">> \o Indent(level)

\* the node classes that have a _format_<class> method
Supported == {"Name", "Attribute", "Constant", "List", "Tuple", "Dict", "Call"}

\* str(node.value): a string without its quotes
FormatConstantStr(e) == e.s

\* _format_Constant: repr(node.value)
FormatConstant(e) == IF e.t = "str" THEN PyRepr(e.s) ELSE e.s

FFail == [ok |-> FALSE, s |-> <<>>, parts |-> <<>>]
FOk(s) == [ok |-> TRUE, s |-> s, parts |-> <<>>]
FParts(parts) == [ok |-> TRUE, s |-> <<>>, parts |-> parts]

\* one more part h before the parts r; not ok when either raised
FCons(h, r) == IF h.ok /\ r.ok THEN FParts(<<h.s>> \o r.parts) ELSE FFail

\* f"{key}: {value}"
FPair(key, val) == IF key.ok /\ val.ok THEN FOk(key.s \o <<":", " ">> \o val.s) ELSE FFail

\* f"**{value}" and f"{arg}={value}"
FKeyword(arg, val) ==
    IF ~val.ok THEN FFail
    ELSE IF arg = StarStar THEN FOk(StarStar \o val.s)
    ELSE FOk(arg \o <<"=">> \o val.s)

\* open + self._newline_join(parts, level) + close
FBracket(open, r, level, close) ==
    IF r.ok THEN FOk(open \o NewlineJoin(r.parts, level) \o close) ELSE FFail

\* f"{value}.{attr}"
FAttribute(v, attr) == IF v.ok THEN FOk(v.s \o <<".">> \o attr) ELSE FFail

\* the two returns of _format_Call
FCall(f, r, level) ==
    IF ~(f.ok /\ r.ok) THEN FFail
    ELSE IF Len(r.parts) = 0 THEN FOk(f.s \o <<"(", ")">>)
    ELSE FOk(f.s \o <<"(">> \o NewlineJoin(r.parts, level) \o <<")">>)

\* parts + more
FConcat(a, k) == IF a.ok /\ k.ok THEN FParts(a.parts \o k.parts) ELSE FFail

RECURSIVE Format(_, _), FormatAll(_, _), FormatPairs(_, _), FormatKeywords(_, _, _)

\* [self.format(x, level) for x in xs]; not ok when one raises
FormatAll(xs, level) ==
    IF Len(xs) = 0 THEN FParts(<<>>)
    ELSE FCons(Format(xs[1], level), FormatAll(Tail(xs), level))

\* the items of _format_Dict, from key, value, key, value, ...
FormatPairs(xs, level) ==
    IF Len(xs) = 0 THEN FParts(<<>>)
    ELSE FCons(FPair(IF xs[1] = NoKey THEN FOk(KwNone) ELSE Format(xs[1], level),
                     Format(xs[2], level)),
               FormatPairs(SubSeq(xs, 3, Len(xs)), level))

\* the keyword parts of _format_Call
FormatKeywords(ks, vs, level) ==
    IF Len(ks) = 0 THEN FParts(<<>>)
    ELSE FCons(FKeyword(ks[1], Format(vs[1], level)),
               FormatKeywords(Tail(ks), Tail(vs), level))

\* the number of positional arguments of the Call e
NumArgs(e) == Len(e.xs) - 1 - Len(e.ks)

\* _ExprFormatter.format: the text, or not ok when a TypeError is raised
Format(e, level) ==
    IF e.k \notin Supported THEN FFail
    ELSE IF e.k = "Name" THEN FOk(e.s)
    ELSE IF e.k = "Attribute" THEN FAttribute(Format(e.xs[1], level), e.s)
    ELSE IF e.k = "Constant" THEN FOk(FormatConstant(e))
    ELSE IF e.k = "List" THEN
        IF Len(e.xs) = 0 THEN FOk(<<"[", "]">>)
        ELSE FBracket(<<"[">>, FormatAll(e.xs, level + 1), level, <<"]">>)
    ELSE IF e.k = "Tuple" THEN
        IF Len(e.xs) = 0 THEN FOk(<<"(", ")">>)
        ELSE FBracket(<<"(">>, FormatAll(e.xs, level + 1), level, <<")">>)
    ELSE IF e.k = "Dict" THEN
        IF Len(e.xs) = 0 THEN FOk(<<"{", "}">>)
        ELSE FBracket(<<"{">>, FormatPairs(e.xs, level + 1), level, <<"}">>)
    ELSE \* Call
        FCall(Format(e.xs[1], level),
              FConcat(FormatAll(SubSeq(e.xs, 2, NumArgs(e) + 1), level + 1),
                      FormatKeywords(e.ks, SubSeq(e.xs, NumArgs(e) + 2, Len(e.xs)),
                                     level + 1)),
              level)

----------------------------------------------------------------------------
(* ASTParser.parse *)

Returned(v) == [raised |-> "", val |-> v]
Raised(kind) == [raised |-> kind, val |-> <<>>]

\* a parse that lets the formatter's exception out
ParseFormattedStrict(builder, f) == IF f.ok THEN Returned(f.s) ELSE Raised("TypeError")

\* return formatter.format(expr.body), or builder_code on an Exception
ParseFormatted(builder, f) == IF f.ok THEN Returned(f.s) ELSE Returned(builder)

\* ast.parse(builder_code, mode="eval"), or builder_code on a SyntaxError
ParseReparsed(builder, expr) ==
    IF expr.ok THEN ParseFormatted(builder, Format(expr.e, 0)) ELSE Returned(builder)

\* what parse(pretty=p) does with the builder code parse_value gave: raised is ""
\* when it returns val
ParseResult(builder, p) ==
    IF ~p THEN Returned(builder) ELSE ParseReparsed(builder, PyParse(builder))

----------------------------------------------------------------------------
(* Syntax trees: what ast.parse(source) gives and ast.dump prints.  A node has *)
(* k = "Node", its class in s, its field names in ks and their values in xs; a *)
(* list has k = "List"; any other field value has k = "Value", its type in t   *)
(* and its repr() in s (a str: its characters).                                *)

Node(cls, ks, xs) == Tree("Node", "", cls, xs, ks)
Value(t, s) == Tree("Value", t, s, <<>>, <<>>)

ClsModule == <<"M", "o", "d", "u", "l", "e">>
ClsExpr == <<"E", "x", "p", "r">>
ClsConstant == <<"C", "o", "n", "s", "t", "a", "n", "t">>
ClsName == <<"N", "a", "m", "e">>
ClsLoad == <<"L", "o", "a", "d">>
ClsStore == <<"S", "t", "o", "r", "e">>
ClsAssign == <<"A", "s", "s", "i", "g", "n">>
ClsFormattedValue == <<"F", "o", "r", "m", "a", "t", "t", "e", "d", "V", "a", "l", "u", "e">>

FldBody == <<"b", "o", "d", "y">>
FldTypeIgnores == <<"t", "y", "p", "e", "_", "i", "g", "n", "o", "r", "e", "s">>
FldValue == <<"v", "a", "l", "u", "e">>
FldId == <<"i", "d">>
FldCtx == <<"c", "t", "x">>
FldTargets == <<"t", "a", "r", "g", "e", "t", "s">>
FldConversion == <<"c", "o", "n", "v", "e", "r", "s", "i", "o", "n">>

\* the node classes of the ast module the model uses
AstClasses ==
    {ClsModule, ClsExpr, ClsConstant, ClsName, ClsLoad, ClsStore, ClsAssign,
     ClsFormattedValue}

\* repr() of a field value that is neither a node nor a list
ValueRepr(v) == IF v.t = "str" THEN PyRepr(v.s) ELSE v.s

\* sep.join(parts)
RECURSIVE JoinWith(_, _)
JoinWith(parts, sep) ==
    IF Len(parts) = 0 THEN <<>>
    ELSE IF Len(parts) = 1 THEN parts[1]
    ELSE parts[1] \o sep \o JoinWith(Tail(parts), sep)

\* the texts of the formatted values sub
Texts(sub) == [i \in 1..Len(sub) |-> sub[i].s]

\* the name=value arguments of a node
DumpArgs(ks, sub) == [i \in 1..Len(sub) |-> ks[i] \o <<"=">> \o sub[i].s]

\* a node's text: on one line when every value is simple and there are at most 3
DumpNode(cls, args, allsimple, prefix) ==
    IF allsimple /\ Len(args) <= 3
    THEN [s |-> cls \o <<"(">> \o JoinComma(args) \o <<")">>, simple |-> Len(args) = 0]
    ELSE [s |-> cls \o <<"(">> \o prefix \o JoinWith(args, <<",">> \o prefix) \o <<")">>,
          simple |-> FALSE]

DumpList(parts, prefix) ==
    IF Len(parts) = 0 THEN [s |-> <<"[", "]">>, simple |-> TRUE]
    ELSE [s |-> <<"[">> \o prefix \o JoinWith(parts, <<",">> \o prefix) \o <<"]">>,
          simple |-> FALSE]

\* '\n' + indent * level, the level already incremented
DumpPrefix(level) == <<"\n">> \o Spaces(IndentWidth * (level + 1))

DumpOf(v, sub, level) ==
    IF v.k = "Node"
    THEN DumpNode(v.s, DumpArgs(v.ks, sub), \A i \in 1..Len(sub) : sub[i].simple,
                  DumpPrefix(level))
    ELSE IF v.k = "List" THEN DumpList(Texts(sub), DumpPrefix(level))
    ELSE [s |-> ValueRepr(v), simple |-> TRUE]

RECURSIVE DumpFormat(_, _), DumpAll(_, _)

\* [_format(x, level) for x in xs]
DumpAll(xs, level) ==
    IF Len(xs) = 0 THEN <<>>
    ELSE <<DumpFormat(xs[1], level)>> \o DumpAll(Tail(xs), level)

\* ast.dump's _format(node, level) with indent=4: the text, and whether it is simple
DumpFormat(v, level) == DumpOf(v, DumpAll(v.xs, level + 1), level)

\* ast.dump(node, indent=4)
Dump(v) == DumpFormat(v, 0).s

EBad == [ok |-> FALSE, v |-> NoTree, vs |-> <<>>]
EOk(v) == [ok |-> TRUE, v |-> v, vs |-> <<>>]
EOks(vs) == [ok |-> TRUE, v |-> NoTree, vs |-> vs]
ECons(h, r) == IF h.ok /\ r.ok THEN EOks(<<h.v>> \o r.vs) ELSE EBad

\* -n of the int whose repr() is n
Negated(n) ==
    IF n[1] = "-" THEN Tail(n) ELSE IF n = <<"0">> THEN n ELSE <<"-">> \o n

\* the value of the expression e whose operands have the values sub
EvalOf(e, sub) ==
    IF ~sub.ok THEN EBad
    ELSE IF e.k = "Constant" THEN EOk(Value(e.t, e.s))
    ELSE IF e.k \in {"List", "Tuple"} THEN EOk(Tree(e.k, "", <<>>, sub.vs, <<>>))
    ELSE IF e.k = "UnaryOp" THEN
        \* -n and +n of an int n
        IF sub.vs[1].k = "Value" /\ sub.vs[1].t = "int"
        THEN EOk(Value("int", IF e.s = <<"-">> THEN Negated(sub.vs[1].s) ELSE sub.vs[1].s))
        ELSE EBad
    ELSE IF e.k = "Call" THEN
        \* ast.<class>(field=value, ...): only keyword arguments are emitted
        IF /\ e.xs[1].k = "Attribute"
           /\ e.xs[1].xs[1] = Name(<<"a", "s", "t">>)
           /\ e.xs[1].s \in AstClasses
           /\ Len(e.ks) = Len(e.xs) - 1
           /\ \A i \in 1..Len(e.ks) : e.ks[i] # StarStar
        THEN EOk(Node(e.xs[1].s, e.ks, sub.vs))
        ELSE EBad
    ELSE EBad

RECURSIVE EvalExpr(_), EvalAll(_)

EvalAll(xs) ==
    IF Len(xs) = 0 THEN EOks(<<>>) ELSE ECons(EvalExpr(xs[1]), EvalAll(Tail(xs)))

\* eval() of an expression tree: the callee of a Call is not an operand
EvalExpr(e) == EvalOf(e, EvalAll(IF e.k = "Call" THEN Tail(e.xs) ELSE e.xs))

EvalParsed(e) == IF e.ok THEN EvalExpr(e.e) ELSE EBad

\* the tree eval(builder_code, {"ast": ast}) gives, or not ok when it raises
Eval(builder) == EvalParsed(PyParse(builder))

----------------------------------------------------------------------------
(* Inputs *)

\* the characters of the texts enumerated exhaustively: one or two of every class
\* the parser tells apart
Alphabet == {"N", "1", "(", ")", "[", "]", ",", "=", "'", "\"", " ", "-", ".", "\\"}

\* the longest text enumerated exhaustively
MaxLen == 3

RECURSIVE TextsUpTo(_)
TextsUpTo(n) ==
    IF n = 0 THEN {<<>>}
    ELSE LET S == TextsUpTo(n - 1)
         IN  S \cup {Append(s, c) : s \in S, c \in Alphabet}

\* the values of Constant nodes in the trees dumped
ConstValues ==
    { Value("int", <<"1">>), Value("float", <<"1", ".", "5">>),
      Value("none", KwNone), Value("bool", KwTrue),
      Value("str", <<"h", "i">>), Value("str", <<"i", "t", "'", "s">>),
      Value("str", <<"a", "\n", "b">>), Value("str", <<"a", "\\", "b">>),
      Value("str", <<"'", "\"">>) }

\* ast.parse("<constant>"): an expression statement
ModuleOfConst(c) ==
    Node(ClsModule, <<FldBody, FldTypeIgnores>>,
         << ListOf(<< Node(ClsExpr, <<FldValue>>,
                           << Node(ClsConstant, <<FldValue>>, <<c>>) >>) >>),
            ListOf(<<>>) >>)

\* ast.parse("x = 1")
ModuleAssign ==
    Node(ClsModule, <<FldBody, FldTypeIgnores>>,
         << ListOf(<< Node(ClsAssign, <<FldTargets, FldValue>>,
                << ListOf(<< Node(ClsName, <<FldId, FldCtx>>,
                                  << Value("str", <<"x">>), Node(ClsStore, <<>>, <<>>) >>) >>),
                   Node(ClsConstant, <<FldValue>>, <<Value("int", <<"1">>)>>) >>) >>),
            ListOf(<<>>) >>)

\* the {who} of an f-string: its conversion is the int -1
FormattedWho ==
    Node(ClsFormattedValue, <<FldValue, FldConversion>>,
         << Node(ClsName, <<FldId, FldCtx>>,
                 << Value("str", <<"w", "h", "o">>), Node(ClsLoad, <<>>, <<>>) >>),
            Value("int", <<"-", "1">>) >>)

\* the trees whose dump is parsed
SourceTrees == {ModuleOfConst(c) : c \in ConstValues} \cup {ModuleAssign, FormattedWho}

\* longer texts, each for one shape the short ones cannot have
Samples ==
    { <<"T", "r", "u", "e">>,
      <<"M", "a", "y", "b", "e">>,
      <<"+", "1">>,
      <<"(", "1", ",", " ", "1", ")">>,
      <<"(", "(", "1", ")", ",", ")">>,
      <<"[", "1", ",", " ", "[", "1", "]", "]">>,
      <<"N", "a", "m", "e", "(", "i", "d", "=", "'", "x", "'", ",", " ", "c", "t", "x", "=", "L", "o", "a", "d", "(", ")", ")">>,
      <<"N", "a", "m", "e", "(">>,
      <<"N", "a", "m", "e", "(", "i", "d", "=">>,
      <<"N", "a", "m", "e", "(", "i", "d", "=", "1">>,
      <<"N", "(", "N", "=", "1", ",", "N", "=", "1", ")">>,
      <<"'", "a", "\\", "'", "b", "'">>,
      <<"[", "1", ",", "\n", " ", "1", "]">> }

\* every input: a text, and the tree it is the dump of (NoTree: of none)
Inputs ==
    {[text |-> t, tree |-> NoTree] : t \in TextsUpTo(MaxLen) \cup Samples}
    \cup {[text |-> Dump(T), tree |-> T] : T \in SourceTrees}

----------------------------------------------------------------------------
(* The specification of one ASTParser(text).parse(pretty=...) call *)

Init ==
    /\ \E i \in Inputs : text = i.text /\ tree = i.tree
    /\ pos = 0
    /\ stack = <<>>
    /\ ret = NoRet
    /\ status = "new"
    /\ pretty = FALSE
    /\ err = NoErr
    /\ ev = NoEv
    /\ out = Returned(<<>>)
    /\ namespace = <<>>
    /\ return_callable = FALSE
    /\ prior = NoPrior

\* parse(pretty=b) is called: builder_code = self.parse_value()
ParseBegin ==
    /\ status = "new"
    /\ \E b \in BOOLEAN : pretty' = b
    /\ status' = "run"
    /\ stack' = <<Frame("value", "begin", 0)>>
    /\ ev' = NoEv
    /\ UNCHANGED <<namespace, return_callable, prior, text, tree, pos, ret, err, out>>

\* parse_value is back: the rest of parse
ParseEnd ==
    /\ status = "returned"
    /\ status' = "done"
    /\ out' = ParseResult(ret.val, pretty)
    /\ ev' = NoEv
    /\ UNCHANGED <<namespace, return_callable, prior, text, tree, pretty, pos, stack, ret, err>>

Next ==
    \/ ParseBegin
    \/ ParseValue
    \/ ParseValueReturn
    \/ ParseNodeBegin
    \/ ParseNodeLoop
    \/ ParseNodeField
    \/ ParseNodeClose
    \/ ParseListBegin
    \/ ParseListLoop
    \/ ParseListItem
    \/ ParseListClose
    \/ ParseTupleBegin
    \/ ParseTupleLoop
    \/ ParseTupleItem
    \/ ParseTupleClose
    \/ ParseString
    \/ ParseAtom
    \/ ParseEnd

Spec == Init /\ [][Next]_vars

\* the steps of parse_value and of the calls under it
ParseStep ==
    \/ ParseBegin
    \/ ParseValue
    \/ ParseValueReturn
    \/ ParseNodeBegin
    \/ ParseNodeLoop
    \/ ParseNodeField
    \/ ParseNodeClose
    \/ ParseListBegin
    \/ ParseListLoop
    \/ ParseListItem
    \/ ParseListClose
    \/ ParseTupleBegin
    \/ ParseTupleLoop
    \/ ParseTupleItem
    \/ ParseTupleClose
    \/ ParseString
    \/ ParseAtom

\* parse_value is run on: the interpreter keeps taking the one thread's steps
FairSpec == Spec /\ WF_vars(ParseStep)

----------------------------------------------------------------------------
(* The specification of the formatter on its own: an expression tree as        *)
(* ast.parse gives it is formatted, the text is parsed again and the tree that *)
(* gives is formatted again.  tree is the expression, text its format, ret the *)
(* re-parsed tree and out what format() did last.                              *)

\* the longest list or tuple enumerated
MaxElts == 2

\* the sequences over S of at most n elements
RECURSIVE SeqsUpTo(_, _)
SeqsUpTo(S, n) ==
    IF n = 0 THEN {<<>>}
    ELSE LET R == SeqsUpTo(S, n - 1)
         IN  R \cup {<<x>> \o r : x \in S, r \in {q \in R : Len(q) = n - 1}}

NameN == Name(<<"N">>)
One == Constant("int", <<"1">>)
AstN == Attribute(Name(<<"a", "s", "t">>), <<"N">>)

\* names and literals
Leaves ==
    { NameN, One,
      Constant("float", <<"1", ".", "5">>),
      Constant("none", KwNone),
      Constant("str", <<"a">>),
      Constant("str", <<"[", ",", "'", "\n">>) }

\* the keyword arguments of a call: none, N=v or **v
KeywordsOver(S) ==
    {[ks |-> <<>>, vs |-> <<>>]}
    \cup {[ks |-> <<k>>, vs |-> <<v>>] : k \in {<<"N">>, StarStar}, v \in S}

\* the calls of a callee in F with at most one positional and one keyword
\* argument from S
Calls(F, S) ==
    {CallOf(f, args \o kw.vs, kw.ks) : f \in F, args \in SeqsUpTo(S, 1), kw \in KeywordsOver(S)}

\* the attributes, lists, tuples and dicts built in one step from S
Built(S) ==
    {Attribute(v, <<"N">>) : v \in S}
    \cup {ListOf(xs) : xs \in SeqsUpTo(S, MaxElts)}
    \cup {TupleOf(xs) : xs \in SeqsUpTo(S, MaxElts)}
    \cup {DictOf(<<>>)}
    \cup {DictOf(<<k, v>>) : k \in S \cup {NoKey}, v \in S}

\* a unary minus: a node without a _format_ method
MinusOne == UnaryOp("-", One)

\* the trees nested in others
Nested ==
    { One, MinusOne, ListOf(<<>>), ListOf(<<One>>), TupleOf(<<One, NameN>>),
      DictOf(<<One, One>>), CallOf(NameN, <<>>, <<>>), CallOf(AstN, <<One>>, <<>>),
      Attribute(One, <<"N">>), ListOf(<<ListOf(<<One>>)>>) }

\* every expression formatted
FmtExprs ==
    Leaves \cup {MinusOne}
    \cup Built(Leaves) \cup Calls({NameN, AstN}, Leaves)
    \cup Built(Nested) \cup Calls({NameN, AstN, CallOf(NameN, <<>>, <<>>)}, Nested)

\* what a call of format() did: its text, or the TypeError of an unsupported node
FormatResult(f) == IF f.ok THEN Returned(f.s) ELSE Raised("TypeError")

InitFmt ==
    /\ tree \in FmtExprs
    /\ text = <<>>
    /\ status = "tree"
    /\ out = Returned(<<>>)
    /\ ret = NoRet
    /\ pos = 0
    /\ stack = <<>>
    /\ pretty = TRUE
    /\ err = NoErr
    /\ ev = NoEv
    /\ namespace = <<>>
    /\ return_callable = FALSE
    /\ prior = NoPrior

\* the text format(e) gives, kept when it is one
FmtFormatted(r) ==
    /\ out' = r
    /\ text' = r.val
    /\ status' = IF r.raised = "" THEN "formatted" ELSE "unsupported"

\* formatter.format(e)
FmtFormat ==
    /\ status = "tree"
    /\ FmtFormatted(FormatResult(Format(tree, 0)))
    /\ UNCHANGED <<namespace, return_callable, prior, tree, ret, pos, stack, pretty, err, ev>>

\* the tree ast.parse gives for the text, kept when it gives one
FmtReparsed(r) ==
    /\ ret' = [has |-> r.ok, val |-> r.e]
    /\ status' = IF r.ok THEN "reparsed" ELSE "syntaxerror"

\* ast.parse(text, mode="eval").body
FmtReparse ==
    /\ status = "formatted"
    /\ FmtReparsed(PyParse(text))
    /\ UNCHANGED <<namespace, return_callable, prior, tree, text, out, pos, stack, pretty, err, ev>>

\* formatter.format of the re-parsed tree
FmtAgain ==
    /\ status = "reparsed"
    /\ out' = FormatResult(Format(ret.val, 0))
    /\ status' = "again"
    /\ UNCHANGED <<namespace, return_callable, prior, tree, text, ret, pos, stack, pretty, err, ev>>

NextFmt ==
    \/ FmtFormat
    \/ FmtReparse
    \/ FmtAgain

SpecFmt == InitFmt /\ [][NextFmt]_vars

----------------------------------------------------------------------------
(* back(builder_code, return_callable=...).  eval, ast.unparse, compile and    *)
(* exec are Python's: eval gives any value, here tree; a module's body is a    *)
(* list of statements, each a function definition (its body is pass), a class  *)
(* definition, an assignment of 1 or of the builtin len, a del or a bare       *)
(* raise.  namespace maps a name to the object bound to it.                    *)

ClsFunctionDef == <<"F", "u", "n", "c", "t", "i", "o", "n", "D", "e", "f">>
ClsAsyncFunctionDef == <<"A", "s", "y", "n", "c">> \o ClsFunctionDef
ClsClassDef == <<"C", "l", "a", "s", "s", "D", "e", "f">>
ClsDelete == <<"D", "e", "l", "e", "t", "e">>
ClsRaise == <<"R", "a", "i", "s", "e">>
FldName == <<"n", "a", "m", "e">>

FunctionDef(name) == Node(ClsFunctionDef, <<FldName>>, <<Value("str", name)>>)
AsyncFunctionDef(name) == Node(ClsAsyncFunctionDef, <<FldName>>, <<Value("str", name)>>)
ClassDef(name) == Node(ClsClassDef, <<FldName>>, <<Value("str", name)>>)
\* name = value
Assign(name, value) ==
    Node(ClsAssign, <<FldTargets, FldValue>>,
         << ListOf(<< Node(ClsName, <<FldId, FldCtx>>,
                           <<Value("str", name), Node(ClsStore, <<>>, <<>>)>>) >>),
            value >>)
\* del name
Delete(name) ==
    Node(ClsDelete, <<FldTargets>>,
         << ListOf(<< Node(ClsName, <<FldId>>, <<Value("str", name)>>) >>) >>)
Raise0 == Node(ClsRaise, <<>>, <<>>)
Module(body) == Node(ClsModule, <<FldBody, FldTypeIgnores>>, <<ListOf(body), ListOf(<<>>)>>)

\* the name a statement defines, assigns or deletes
NameOf(stmt) ==
    IF stmt.s \in {ClsAssign, ClsDelete} THEN stmt.xs[1].xs[1].xs[1].s ELSE stmt.xs[1].s

\* objects: a kind and the __name__ of a function, class or builtin
Obj(kind, name) == [kind |-> kind, name |-> name]
Absent == Obj("absent", <<>>)
Len0 == <<"l", "e", "n">>
ConstOne == Node(ClsConstant, <<FldValue>>, <<Value("int", <<"1">>)>>)
LoadLen == Node(ClsName, <<FldId, FldCtx>>, <<Value("str", Len0)>>)

\* callable(obj); namespace.get gives None for an absent name
Callable(o) == o.kind \in {"function", "async function", "class", "builtin"}

F0 == <<"f">>
Back0 == <<"b", "a", "c", "k">>
\* the names bound: f, and back, which globals() holds
Names == {F0, Back0}

\* namespace.update(globals()): of the module's globals, back is kept
Globals == [n \in Names |-> IF n = Back0 THEN Obj("function", Back0) ELSE Absent]

\* the value of the right-hand side of an assignment: 1 or the builtin len
ValueOf(e) == IF e.s = ClsConstant THEN Obj("int", <<>>) ELSE Obj("builtin", Len0)

XOk(ns) == [raised |-> "", ns |-> ns]
XRaise(kind, ns) == [raised |-> kind, ns |-> ns]

\* one top-level statement executed in ns
ExecStmt(stmt, ns) ==
    IF stmt.s = ClsFunctionDef THEN XOk([ns EXCEPT ![NameOf(stmt)] = Obj("function", NameOf(stmt))])
    ELSE IF stmt.s = ClsAsyncFunctionDef
        THEN XOk([ns EXCEPT ![NameOf(stmt)] = Obj("async function", NameOf(stmt))])
    ELSE IF stmt.s = ClsClassDef THEN XOk([ns EXCEPT ![NameOf(stmt)] = Obj("class", NameOf(stmt))])
    ELSE IF stmt.s = ClsAssign THEN XOk([ns EXCEPT ![NameOf(stmt)] = ValueOf(stmt.xs[2])])
    ELSE IF stmt.s = ClsDelete THEN
        IF ns[NameOf(stmt)] = Absent THEN XRaise("NameError", ns)
        ELSE XOk([ns EXCEPT ![NameOf(stmt)] = Absent])
    ELSE XRaise("RuntimeError", ns)

\* exec(compile(built_ast, "<back>", "exec"), namespace): the statements in
\* order, up to the first that raises
RECURSIVE Exec(_, _)
Exec(body, x) ==
    IF Len(body) = 0 \/ x.raised # "" THEN x
    ELSE Exec(Tail(body), ExecStmt(body[1], x.ns))

\* isinstance(built_ast, ast.AST)
IsAst(v) == v.k = "Node"
\* its body, when built_ast is a Module
BodyOf(v) == v.xs[1].xs

\* a list of the names of the sync function definitions alone
RECURSIVE FuncDefsSync(_)
FuncDefsSync(body) ==
    IF Len(body) = 0 THEN <<>>
    ELSE (IF body[1].s = ClsFunctionDef THEN <<NameOf(body[1])>> ELSE <<>>)
         \o FuncDefsSync(Tail(body))

\* [node.name for node in built_ast.body if isinstance(node, (FunctionDef, AsyncFunctionDef))]
RECURSIVE FuncDefs(_)
FuncDefs(body) ==
    IF Len(body) = 0 THEN <<>>
    ELSE (IF body[1].s \in {ClsFunctionDef, ClsAsyncFunctionDef} THEN <<NameOf(body[1])>> ELSE <<>>)
         \o FuncDefs(Tail(body))

\* ast.unparse of a statement: its source lines
UnparseStmt(stmt) ==
    IF stmt.s = ClsFunctionDef
        THEN <<"d", "e", "f", " ">> \o NameOf(stmt) \o <<"(", ")", ":", "\n">> \o Spaces(4) \o <<"p", "a", "s", "s">>
    ELSE IF stmt.s = ClsAsyncFunctionDef
        THEN <<"a", "s", "y", "n", "c", " ", "d", "e", "f", " ">> \o NameOf(stmt)
             \o <<"(", ")", ":", "\n">> \o Spaces(4) \o <<"p", "a", "s", "s">>
    ELSE IF stmt.s = ClsClassDef
        THEN <<"c", "l", "a", "s", "s", " ">> \o NameOf(stmt) \o <<":", "\n">> \o Spaces(4) \o <<"p", "a", "s", "s">>
    ELSE IF stmt.s = ClsAssign
        THEN NameOf(stmt) \o <<" ", "=", " ">> \o (IF stmt.xs[2].s = ClsConstant THEN <<"1">> ELSE Len0)
    ELSE IF stmt.s = ClsDelete THEN <<"d", "e", "l", " ">> \o NameOf(stmt)
    ELSE <<"r", "a", "i", "s", "e">>

\* the statements one after the other: a blank line comes before a function or
\* class definition that is not the first statement
RECURSIVE UnparseAll(_, _)
UnparseAll(body, first) ==
    IF Len(body) = 0 THEN <<>>
    ELSE (IF first THEN <<>>
          ELSE IF body[1].s \in {ClsFunctionDef, ClsAsyncFunctionDef, ClsClassDef}
               THEN <<"\n", "\n">>
          ELSE <<"\n">>)
         \o UnparseStmt(body[1]) \o UnparseAll(Tail(body), FALSE)

\* ast.unparse(built_ast)
Unparse(v) == IF v.s = ClsModule THEN UnparseAll(BodyOf(v), TRUE) ELSE UnparseStmt(v)

\* the longest module body enumerated
MaxBody == 2

Stmts ==
    {FunctionDef(n) : n \in Names} \cup {AsyncFunctionDef(n) : n \in Names}
    \cup {ClassDef(F0), Raise0}
    \cup {Assign(n, v) : n \in Names, v \in {ConstOne, LoadLen}}
    \cup {Delete(n) : n \in Names}

\* what eval() raises: the marker of a builder code that fails to evaluate
EvalRaises == Tree("raise", "", <<>>, <<>>, <<>>)

\* what eval(builder_code, {"ast": ast}) does: it raises, or gives an int, a
\* list, a statement on its own or a module
Builts ==
    {EvalRaises, Value("int", <<"1">>), ListOf(<<>>), FunctionDef(F0)}
    \cup {Module(body) : body \in SeqsUpTo(Stmts, MaxBody)}

InitBack ==
    /\ tree \in Builts
    /\ return_callable \in BOOLEAN
    /\ prior = NoPrior
    /\ namespace = <<>>
    /\ status = "eval"
    /\ out = Returned(<<>>)
    /\ text = <<>>
    /\ ret = NoRet
    /\ pos = 0
    /\ stack = <<>>
    /\ pretty = FALSE
    /\ err = NoErr
    /\ ev = NoEv

\* raise kind: back is over
BackRaise(kind) ==
    /\ status' = "raised"
    /\ out' = Raised(kind)
    /\ UNCHANGED <<namespace, text, ret>>

\* built_ast = eval(...) and the isinstance test
BackEval ==
    /\ status = "eval"
    /\ IF tree = EvalRaises THEN BackRaise("ValueError: Invalid builder code")
       ELSE IF ~IsAst(tree) THEN BackRaise("TypeError")
       ELSE status' = "unparse" /\ UNCHANGED <<namespace, out, text, ret>>
    /\ UNCHANGED <<tree, return_callable, prior, pos, stack, pretty, err, ev>>

\* source = ast.unparse(built_ast), returned unless a callable is asked for
BackUnparse ==
    /\ status = "unparse"
    /\ text' = Unparse(tree)
    /\ IF ~return_callable
       THEN status' = "returned" /\ out' = Returned(Unparse(tree))
       ELSE status' = "check" /\ UNCHANGED out
    /\ UNCHANGED <<namespace, tree, return_callable, prior, ret, pos, stack, pretty, err, ev>>

\* the tests for a module and for one function definition
BackCheck ==
    /\ status = "check"
    /\ IF tree.s # ClsModule THEN BackRaise("ValueError: requires a module AST")
       ELSE IF Len(FuncDefs(BodyOf(tree))) # 1
            THEN BackRaise("ValueError: expects exactly one function definition")
       ELSE status' = "exec" /\ namespace' = Globals /\ UNCHANGED <<out, text, ret>>
    /\ UNCHANGED <<tree, return_callable, prior, pos, stack, pretty, err, ev>>

\* the module executed: x is what exec did
BackExecuted(x) ==
    /\ namespace' = x.ns
    /\ IF x.raised # "" THEN status' = "raised" /\ out' = Raised(x.raised)
       ELSE status' = "lookup" /\ UNCHANGED out

\* exec(compile(built_ast, "<back>", "exec"), namespace)
BackExec ==
    /\ status = "exec"
    /\ BackExecuted(Exec(BodyOf(tree), XOk(namespace)))
    /\ UNCHANGED <<tree, return_callable, prior, text, ret, pos, stack, pretty, err, ev>>

\* func = namespace.get(func_defs[0]) and the callable test
BackLookup ==
    /\ status = "lookup"
    /\ LET func == namespace[FuncDefs(BodyOf(tree))[1]]
       IN  IF ~Callable(func)
           THEN BackRaise("ValueError: Failed to locate callable")
           ELSE /\ status' = "returned"
                /\ ret' = [has |-> TRUE, val |-> func]
                /\ UNCHANGED <<namespace, out, text>>
    /\ UNCHANGED <<tree, return_callable, prior, pos, stack, pretty, err, ev>>

NextBack ==
    \/ BackEval
    \/ BackUnparse
    \/ BackCheck
    \/ BackExec
    \/ BackLookup

SpecBack == InitBack /\ [][NextBack]_vars

----------------------------------------------------------------------------
(* Properties of one parse call                                                *)

\* r is the outcome of eval(): it gave the tree T
EvalIs(r, T) == r.ok /\ r.v = T

\* C1: for every tree T, parse_value on ast.dump(T, indent=4) succeeds and the
\* builder code it returns evaluates to a tree equal to T.
C1_RoundTrip ==
    tree # NoTree =>
        /\ status # "err"
        /\ status \in {"returned", "done"} => EvalIs(Eval(ret.val), tree)

\* [+-]?\d+ read off the lexeme itself
SignedDigits(a) ==
    LET k == IF Len(a) > 0 /\ a[1] \in {"+", "-"} THEN 2 ELSE 1
    IN  k <= Len(a) /\ \A i \in k..Len(a) : a[i] \in Digits

\* C2: parse_atom consumes the maximal run of [A-Za-z0-9_.+-] at the cursor; it
\* returns the lexeme unchanged exactly when the lexeme is True, False, None or
\* matches [+-]?\d+, and otherwise raises the unknown-atom error naming it.
C2_Atom ==
    ev.op = "atom" =>
        LET lex == ev.val
        IN  /\ pos = ev.start + Len(lex)
            /\ \A i \in 1..Len(lex) : text[ev.start + i] = lex[i] /\ lex[i] \in AtomChars
            /\ pos < Len(text) => text[pos + 1] \notin AtomChars
            /\ ev.ok <=> (lex \in {KwTrue, KwFalse, KwNone} \/ SignedDigits(lex))
            /\ ev.ok => status # "err" /\ ret.has /\ ret.val = lex
            /\ ~ev.ok => status = "err" /\ err.kind = "UnknownAtom" /\ err.tok = lex

\* a number that is no integer is read as one lexeme and rejected
C2_Witness ==
    /\ ev.op = "atom" /\ ~ev.ok
    /\ ev.val = <<"1", ".", "1">>
    /\ err.kind = "UnknownAtom"

\* the expression r is a tuple display of n elements, when it is an expression
TupleOfN(r, n) == r.ok => r.e.k = "Tuple" /\ Len(r.e.xs) = n

\* C3: parse_tuple emits "(x,)" when it read exactly one element x, and in every
\* other case its elements joined by ", " in parentheses; what it emits is never
\* a parenthesized scalar.
C3_Tuple ==
    (ev.op = "tuple" /\ ev.ok) =>
        /\ ret.val = ev.val
        /\ Len(ev.items) = 1 => ev.val = <<"(">> \o ev.items[1] \o <<",", ")">>
        /\ Len(ev.items) # 1 => ev.val = <<"(">> \o JoinComma(ev.items) \o <<")">>
        /\ TupleOfN(PyParse(ev.val), Len(ev.items))

\* "(1)" is read as the one-element tuple
C3_Witness ==
    /\ ev.op = "tuple" /\ ev.ok
    /\ text = <<"(", "1", ")">>
    /\ ev.val = <<"(", "1", ",", ")">>

\* the expression r is the str constant whose characters are raw
StrConstant(r, raw) == r.ok /\ r.e = Constant("str", raw)

\* C4: parse_string processes no escapes: the content is the raw text from the
\* opening quote up to the first later occurrence of the same quote character,
\* the cursor ends just past that quote and the literal emitted is the standard
\* quoting of the raw content; with no later quote it raises the
\* unterminated-string error.
C4_String ==
    ev.op = "string" =>
        LET q == text[ev.start]
            later == {i \in ev.start + 1..Len(text) : text[i] = q}
        IN  /\ ev.ok <=> later # {}
            /\ ev.ok =>
                 LET raw == Slice(text, ev.start, pos - 1)
                 IN  /\ later # {} /\ pos = CHOOSE i \in later : \A j \in later : i <= j
                     /\ status # "err" /\ ret.val = ev.val
                     /\ ev.val = PyRepr(raw)
                     /\ StrConstant(PyParse(ev.val), raw)
            /\ ~ev.ok => status = "err" /\ err.kind = "Unterminated"

\* a backslash before the closing quote does not escape it
C4_Witness ==
    /\ ev.op = "string" /\ ev.ok
    /\ text = <<"'", "a", "\\", "'", "b", "'">>
    /\ pos = 4
    /\ ev.val = <<"'", "a", "\\", "\\", "'">>

\* C5 as stated: whenever the text is exhausted before the value is complete,
\* outside a string literal, the parse fails with the unexpected-end error.
C5_UnexpectedEnd ==
    (status = "err" /\ pos = Len(text) /\ err.kind \notin {"Unterminated", "UnknownAtom"})
        => err.kind = "UnexpectedEnd"

\* the delimiter that closes the construct fn
Closer(fn) == IF fn = "list" THEN <<"]">> ELSE <<")">>

\* C5: when the text is exhausted where a value must begin (an empty or
\* whitespace-only text, after "[", after "," or after "id=") the parse fails
\* with the unexpected-end error; when it is exhausted where the closing
\* delimiter of a node, list or tuple is required (after "[1", after "Name(") the
\* parse fails with eat's assertion error naming the delimiter and the offset.
C5_Exhausted ==
    [][ /\ (Running("value", "begin") /\ SkipWs(text, pos) = Len(text))
            => (status' = "err" /\ err'.kind = "UnexpectedEnd")
        /\ (status = "run" /\ Top.pc = "close" /\ Top.fn \in {"node", "list", "tuple"} /\ pos = Len(text))
            => (status' = "err" /\ err' = [kind |-> "ExpectedToken", tok |-> Closer(Top.fn), at |-> Len(text)])
      ]_vars

\* "[1" ends where "]" is required
C5_Witness ==
    /\ text = <<"[", "1">>
    /\ status = "err"
    /\ err = [kind |-> "ExpectedToken", tok |-> <<"]">>, at |-> 2]

\* parse(pretty=True) gave result for the builder code: it fell back to the
\* code itself when the code is no expression (expr) or has no format (f)
FellBack(result, builder, expr) ==
    (~expr.ok \/ ~Format(expr.e, 0).ok) => result = Returned(builder)

\* C6: parse(pretty=True) never raises because formatting failed: when the
\* builder code does not re-parse or the formatter raises, it returns the
\* builder code that parse(pretty=False) returns; it raises only where
\* parse(pretty=False) raises.
C6_Fallback ==
    status = "done" =>
        /\ out.raised = ""
        /\ ~pretty => out = Returned(ret.val)
        /\ pretty => FellBack(out, ret.val, PyParse(ret.val))

\* "-1" re-parses to a unary minus, which the formatter does not handle
C6_Witness ==
    /\ status = "done" /\ pretty
    /\ text = <<"-", "1">>
    /\ out = Returned(<<"-", "1">>)

\* C10: the cursor stays within 0..len(text) and never decreases.
C10_Cursor == [](0 <= pos /\ pos <= Len(text)) /\ [][pos' >= pos]_vars

\* eat fails at the end of the text and leaves the cursor there
C10_Witness == status = "err" /\ err.kind = "ExpectedToken" /\ pos = Len(text) /\ pos > 0

----------------------------------------------------------------------------
(* Properties of the formatter                                                 *)

\* e holds an attribute access on an integer literal, as (1).real does
RECURSIVE IntAttribute(_)
IntAttribute(e) ==
    \/ e.k = "Attribute" /\ e.xs[1].k = "Constant" /\ e.xs[1].t = "int"
    \/ \E i \in 1..Len(e.xs) : IntAttribute(e.xs[i])

Openers == {"(", "[", "{"}
Closers == {")", "]", "}"}

\* the scan of a formatted text before its first character: q is the quote of
\* the string literal the scan is in, depth the number of brackets open, ind
\* the spaces that begin the line, prev the character before and last the one
\* that ended the line before
LayoutStart ==
    [ok |-> TRUE, q |-> "", esc |-> FALSE, depth |-> 0, bol |-> FALSE, ind |-> 0,
     prev |-> "", last |-> ""]

\* the scan after the character c at i, which is outside a string literal and
\* no line break or indentation: a line begins at one unit per open bracket and
\* a closing bracket that begins a line one unit less, after a comma; an opening
\* bracket ends its line or is closed at once; a comma ends its line
LayoutVisible(t, i, c, sc) ==
    [sc EXCEPT
        !.ok = /\ sc.ok
               /\ sc.bol => IF c \in Closers
                            THEN sc.ind = IndentWidth * (sc.depth - 1) /\ sc.last = ","
                            ELSE sc.ind = IndentWidth * sc.depth
               /\ c \in Openers => i < Len(t) /\ (t[i + 1] = "\n" \/ t[i + 1] \in Closers)
               /\ c \in Closers => sc.depth > 0 /\ (sc.bol \/ sc.prev \in Openers)
               /\ c = "," => i < Len(t) /\ t[i + 1] = "\n",
        !.depth = IF c \in Openers THEN @ + 1 ELSE IF c \in Closers THEN @ - 1 ELSE @,
        !.q = IF c \in QuoteChars THEN c ELSE "",
        !.bol = FALSE,
        !.prev = c]

\* the scan after the character at i
LayoutStep(t, i, sc) ==
    IF sc.q # "" THEN
        IF sc.esc THEN [sc EXCEPT !.esc = FALSE, !.prev = t[i]]
        ELSE IF t[i] = "\\" THEN [sc EXCEPT !.esc = TRUE, !.prev = t[i]]
        ELSE IF t[i] = sc.q THEN [sc EXCEPT !.q = "", !.prev = t[i]]
        ELSE [sc EXCEPT !.prev = t[i]]
    ELSE IF t[i] = "\n" THEN
        \* a line ends inside a bracket, after an opening bracket or a comma
        [sc EXCEPT !.ok = sc.ok /\ sc.depth > 0 /\ sc.prev \in Openers \cup {","},
                   !.bol = TRUE, !.ind = 0, !.last = sc.prev, !.prev = t[i]]
    ELSE IF sc.bol /\ t[i] = " " THEN [sc EXCEPT !.ind = @ + 1]
    ELSE LayoutVisible(t, i, t[i], sc)

RECURSIVE LayoutScan(_, _, _)
LayoutScan(t, i, sc) ==
    IF i > Len(t) \/ ~sc.ok THEN sc ELSE LayoutScan(t, i + 1, LayoutStep(t, i, sc))

LayoutEnd(sc) == sc.ok /\ sc.depth = 0 /\ sc.q = ""

\* the text t is laid out one element a line
Layout(t) == LayoutEnd(LayoutScan(t, 1, LayoutStart))

\* C9: in a formatted text every element or argument of a non-empty list,
\* tuple, mapping or call begins its own line, indented by one unit more than
\* the bracket that holds it, and is followed by a comma, the last one too; the
\* closing bracket begins a line at the indentation of its construct; an empty
\* list, tuple or zero-argument call is "[]", "()" or "callee()" on one line.
C9_Layout ==
    (status \in {"formatted", "again"} /\ out.raised = "") =>
        /\ Layout(out.val)
        /\ status = "formatted" =>
             /\ tree = ListOf(<<>>) => out.val = <<"[", "]">>
             /\ tree = TupleOf(<<>>) => out.val = <<"(", ")">>
             /\ (tree.k = "Call" /\ Len(tree.xs) = 1 /\ tree.xs[1].k = "Name")
                    => out.val = tree.xs[1].s \o <<"(", ")">>

\* a list in a list: the inner element is two units in
C9_Witness ==
    /\ status = "formatted"
    /\ tree = ListOf(<<ListOf(<<One>>)>>)
    /\ out.val = <<"[", "\n">> \o Spaces(4) \o <<"[", "\n">> \o Spaces(8) \o <<"1", ",", "\n">>
                   \o Spaces(4) \o <<"]", ",", "\n", "]">>

----------------------------------------------------------------------------
(* Properties of back                                                          *)

\* the places of the function definitions in a module body
DefsIn(body) == {i \in 1..Len(body) : body[i].s \in {ClsFunctionDef, ClsAsyncFunctionDef}}

\* the function object the definition stmt makes
Defined(stmt) ==
    Obj(IF stmt.s = ClsFunctionDef THEN "function" ELSE "async function", NameOf(stmt))

\* back(..., return_callable=True) is over for a tree that eval gave
BackOver == return_callable /\ status \in {"returned", "raised"} /\ IsAst(tree)

Undisturbed(body, d, n) ==
    \A i \in 1..Len(body) \ {d} :
        /\ body[i].s \in {ClsAssign, ClsClassDef}
        /\ i > d => NameOf(body[i]) # n

\* after the definition of n at place d, body deletes n or assigns 1 to it at
\* place j and leaves it so; its other statements only bind names
Unbinds(body, d, n) ==
    \E j \in d + 1..Len(body) :
        /\ body[j] \in {Delete(n), Assign(n, ConstOne)}
        /\ \A i \in 1..Len(body) \ {d, j} :
              /\ body[i].s \in {ClsAssign, ClsClassDef}
              /\ i > j => NameOf(body[i]) # n

\* what back did for a module body whose one function definition is at place d
OneDef(body, d) ==
    /\ status = "returned" => Callable(ret.val) /\ ret.val = namespace[NameOf(body[d])]
    /\ status = "raised" =>
          out.raised \in {"RuntimeError", "NameError", "ValueError: Failed to locate callable"}
    /\ Undisturbed(body, d, NameOf(body[d])) => status = "returned" /\ ret.val = Defined(body[d])
    /\ Unbinds(body, d, NameOf(body[d])) =>
          status = "raised" /\ out.raised = "ValueError: Failed to locate callable"

----------------------------------------------------------------------------
(* More properties of one parse call                                           *)

\* the brackets open at offset p of t: those among the first p characters that
\* are outside string literals (a literal runs from a quote to the next same
\* quote) less the closing ones; q is the quote of the literal the scan is in
RECURSIVE UnclosedFrom(_, _, _, _, _)
UnclosedFrom(t, i, p, q, d) ==
    IF i > p THEN d
    ELSE IF q # "" /\ d >= 0 THEN UnclosedFrom(t, i + 1, p, IF t[i] = q THEN "" ELSE q, d)
    ELSE IF t[i] \in QuoteChars THEN UnclosedFrom(t, i + 1, p, t[i], d)
    ELSE IF t[i] \in {"(", "["} THEN UnclosedFrom(t, i + 1, p, q, d + 1)
    ELSE IF t[i] \in {")", "]"} THEN UnclosedFrom(t, i + 1, p, q, d - 1)
    ELSE UnclosedFrom(t, i + 1, p, q, d)

Unclosed(t, p) == UnclosedFrom(t, 1, p, "", 0)

\* the calls of parse_node, parse_list and parse_tuple that have read their
\* opening bracket
Opened(st) == {i \in 1..Len(st) : st[i].fn \in {"node", "list", "tuple"} /\ st[i].pc # "begin"}

\* the depth of the recursion is that of the brackets open at the cursor
DepthBounded(n) == Cardinality(Opened(stack)) = n /\ Len(stack) <= 2 * n + 3

\* a step that goes round the loop of parse_node, parse_list or parse_tuple again
Continues ==
    /\ status = "run" /\ Len(stack) > 0 /\ Len(stack') = Len(stack)
    /\ Top.pc = "await" /\ stack'[Len(stack)].pc = "loop"

\* C11: for every text parse_value returns or fails in the end; a call of
\* parse_value that returns has moved the cursor by at least one character, a
\* step that continues a loop of parse_node, parse_list or parse_tuple moves
\* it, and the recursion is as deep as the brackets open at the cursor, at
\* most two calls a bracket and three more.
C11_Terminates ==
    /\ <>(status \in {"returned", "err"})
    /\ []((ev.op = "value" /\ ev.ok) => pos > ev.start)
    /\ [](status = "run" => DepthBounded(Unclosed(text, pos)))
    /\ [][Continues => pos' > pos]_vars

\* a list in a list: six calls deep with two brackets open
C11_Witness ==
    /\ status = "run"
    /\ Len(stack) = 6
    /\ Unclosed(text, pos) = 2
    /\ Top.fn = "atom"

----------------------------------------------------------------------------
(* C12: the lookahead that selects the node production *)

\* the grammar's IDENT: [A-Za-z_][A-Za-z0-9_]*
IsIdent(s) ==
    /\ Len(s) > 0
    /\ s[1] \in FieldChars
    /\ \A i \in 1..Len(s) : s[i] \in NodeChars

\* the text at offset p is an IDENT immediately followed by "("
IdentThenParen(t, p) ==
    LET q == ScanWhile(t, p, NodeChars)
    IN  q < Len(t) /\ t[q + 1] = "(" /\ IsIdent(Slice(t, p, q))

\* parse_value has just selected a production: the callee's frame is new
Selected ==
    status = "run" /\ Len(stack) > 1 /\ Top.pc = "begin" /\ Top.fn # "value"

\* the constructor name of an emitted node: what stands between "ast." and "("
EmittedName(code) == Slice(code, 4, ScanWhile(code, 4, NodeChars))

\* C12: parse_value selects the node production exactly when the text at the
\* first non-whitespace position is an IDENT immediately followed by "(", so a
\* name that starts with a digit is not parsed as a node, and the constructor
\* name of every emitted node is an IDENT behind the prefix "ast.".
C12_NodeIdent ==
    /\ Selected => (Top.fn = "node" <=> IdentThenParen(text, pos))
    /\ (ev.op = "node" /\ ev.ok) =>
           /\ Slice(ev.val, 0, 4) = AstClass(<<>>)
           /\ IsIdent(EmittedName(ev.val))

----------------------------------------------------------------------------
(* C13: a field list that holds neither a field nor ")" at the cursor *)

\* the text at p (after whitespace) is neither a field pattern nor ")"
NeitherFieldNorClose(t, p) == Peek(t, p) # <<")">> /\ ~FieldMatch(t, p)

\* parse_node is at the head of its loop before such a text
AtMalformed ==
    Running("node", "loop") /\ NeitherFieldNorClose(text, SkipWs(text, pos))

\* parse_node has left its loop before such a text
Stopped == Running("node", "close") /\ NeitherFieldNorClose(text, pos)

\* the loop is left: no field is read, the cursor rests behind the whitespace
StopsReading ==
    /\ status' = "run"
    /\ stack' = SetTop([Top EXCEPT !.pc = "close"])
    /\ pos' = SkipWs(text, pos)

\* C13 as the specification words it: the text is not rejected where the field
\* list stops, no error is raised for it
C13_NotRejected == [][Stopped => status' = "run"]_vars

\* C13: when the text at the cursor of a node's field list (after whitespace)
\* is neither a field pattern nor ")", parse_node stops reading the field list
\* without an error of the loop's own, and the eat(")") that follows the loop
\* rejects the input there: it raises the expected-token error for ")" at
\* that cursor.
C13_Rejected ==
    /\ [][AtMalformed => StopsReading]_vars
    /\ [][Stopped => /\ status' = "err"
                     /\ err' = [kind |-> "ExpectedToken", tok |-> <<")">>, at |-> pos]]_vars

\* N(1: the loop was left before "1" and eat(")") failed there
C13_Witness ==
    /\ status = "err"
    /\ err.kind = "ExpectedToken"
    /\ Len(stack) > 0
    /\ Top.fn = "node"
    /\ Top.pc = "close"
    /\ Len(Top.items) = 0
    /\ pos < Len(text)
    /\ NeitherFieldNorClose(text, pos)

----------------------------------------------------------------------------
(* Two parse calls, the second on a text made from the first one's: a new      *)
(* ASTParser is constructed for it, as _cmd_parse does for every file it reads *)

\* the longest run of whitespace inserted
MaxWs == 2
\* the longest text put behind the first value
MaxTail == 1

\* the runs of spaces and newlines of 1..n characters
RECURSIVE WsRuns(_)
WsRuns(n) ==
    IF n = 0 THEN {}
    ELSE LET S == WsRuns(n - 1)
         IN  {<<c>> : c \in {" ", "\n"}} \cup {Append(w, c) : w \in S, c \in {" ", "\n"}}

\* the texts of 1..n characters
TailsUpTo(n) == TextsUpTo(n) \ {<<>>}

\* t with w put in at offset i
InsertAt(t, i, w) == Slice(t, 0, i) \o w \o Slice(t, i, Len(t))

\* the quote of the string literal that is open after the first p characters of
\* t ("" when none is): a literal ends at the next occurrence of its quote
RECURSIVE QuoteFrom(_, _, _, _)
QuoteFrom(t, i, p, q) ==
    IF i > p THEN q
    ELSE IF q # "" THEN QuoteFrom(t, i + 1, p, IF t[i] = q THEN "" ELSE q)
    ELSE QuoteFrom(t, i + 1, p, IF t[i] \in QuoteChars THEN t[i] ELSE "")

InString(t, p) == QuoteFrom(t, 1, p, "") # ""

\* offset i is where a value begins: the start of the text, behind "[", behind
\* a field's "=", behind a "," or behind the "(" of a tuple
BeforeValue(t, i) ==
    \/ i = 0
    \/ i > 0 /\ t[i] \in {"[", "=", ","}
    \/ i > 0 /\ t[i] = "(" /\ (i = 1 \/ t[i - 1] \notin NodeChars)

BeforeCloser(t, i) == i < Len(t) /\ t[i + 1] \in {")", "]"}

AroundComma(t, i) == (i < Len(t) /\ t[i + 1] = ",") \/ (i > 0 /\ t[i] = ",")

\* the offsets of the value read, t[0:p], at which whitespace is insignificant
WsPoints(t, p) ==
    {i \in 0..(p - 1) : /\ ~InString(t, i)
                        /\ BeforeValue(t, i) \/ BeforeCloser(t, i) \/ AroundComma(t, i)}

\* c behind the value read would make its last lexeme a longer one: an atom's
\* characters behind an atom, and "(" behind an unsigned atom, which node_re
\* then takes for a node's name
Extends(t, p, c) ==
    /\ p > 0
    /\ t[p] \in AtomChars
    /\ c \in AtomChars \/ (c = "(" /\ t[SkipWs(t, 0) + 1] \in NodeChars)

\* the texts that may stand behind the value read
Tails(t, p) == {tl \in TailsUpTo(MaxTail) : ~Extends(t, p, tl[1])}

\* ASTParser(t2) after the call on `text` is over
Again(how, t2) ==
    /\ prior' = [has |-> TRUE, how |-> how, text |-> text, val |-> ret.val, pos |-> pos]
    /\ text' = t2
    /\ tree' = NoTree
    /\ pos' = 0
    /\ stack' = <<>>
    /\ ret' = NoRet
    /\ status' = "new"
    /\ err' = NoErr
    /\ ev' = NoEv
    /\ out' = Returned(<<>>)
    /\ UNCHANGED <<pretty, namespace, return_callable>>

\* the same text with whitespace put in
WsVariant ==
    /\ status = "done"
    /\ ~prior.has
    /\ \E i \in WsPoints(text, pos), w \in WsRuns(MaxWs) : Again("ws", InsertAt(text, i, w))

\* the text up to the final cursor with something else behind it
TailVariant ==
    /\ status = "done"
    /\ ~prior.has
    /\ \E tl \in Tails(text, pos) : Again("tail", Slice(text, 0, pos) \o tl)

NextPair ==
    \/ ParseBegin
    \/ ParseValue
    \/ ParseValueReturn
    \/ ParseNodeBegin
    \/ ParseNodeLoop
    \/ ParseNodeField
    \/ ParseNodeClose
    \/ ParseListBegin
    \/ ParseListLoop
    \/ ParseListItem
    \/ ParseListClose
    \/ ParseTupleBegin
    \/ ParseTupleLoop
    \/ ParseTupleItem
    \/ ParseTupleClose
    \/ ParseString
    \/ ParseAtom
    \/ ParseEnd
    \/ WsVariant
    \/ TailVariant

SpecPair == Init /\ [][NextPair]_vars

----------------------------------------------------------------------------
(* C14: whitespace is insignificant *)

\* the second call, on the text with whitespace put in, is over
WsOver == prior.has /\ prior.how = "ws" /\ status \in {"returned", "done", "err"}

\* C14: when whitespace (spaces or newlines) is put into an accepted text
\* before a value, before a closing ")" or "]", or directly before or after a
\* ",", the text is accepted too and gives exactly the same builder expression.
C14_Whitespace == WsOver => status # "err" /\ ret.val = prior.val

\* [1,1] was read and then [1,\n 1], with the same builder
C14_Witness ==
    /\ WsOver
    /\ status = "done"
    /\ Len(text) = Len(prior.text) + 2
    /\ Len(prior.val) > 4
    /\ ret.val = prior.val
    /\ \E i \in 2..Len(text) : text[i] = "\n" /\ text[i - 1] = ","

----------------------------------------------------------------------------
(* C15: the formatted text is the builder expression *)

\* a and b are what ast.parse gave for two texts: the same expression tree
SameExpr(a, b) == a.ok /\ b.ok /\ a.e = b.e

\* parse(pretty=True) returned a text that is not the builder code
Formatted == status = "done" /\ pretty /\ out.raised = "" /\ out.val # ret.val

\* C15: when parse(pretty=True) returns a text other than the builder
\* expression B, the text re-parses to the expression tree of B (the callees,
\* the positional and named arguments in their order, the literals, a tuple of
\* one element still a tuple), and evaluates to what B evaluates to.
C15_SameExpr ==
    Formatted =>
        /\ SameExpr(PyParse(out.val), PyParse(ret.val))
        /\ EvalParsed(PyParse(out.val)) = EvalParsed(PyParse(ret.val))

\* the dump of a module was read: the formatted builder spans lines and
\* evaluates to the module
C15_Witness ==
    /\ Formatted
    /\ tree # NoTree
    /\ Len(out.val) > Len(ret.val)
    /\ EvalIs(EvalParsed(PyParse(out.val)), tree)

----------------------------------------------------------------------------
(* C16: what stands behind the first value is not read *)

\* the second call, on the text with another tail, is over
TailOver == prior.has /\ prior.how = "tail" /\ status \in {"returned", "done", "err"}

====
